---- MODULE Spec2Model ----
(***************************************************************************)
(* A model of node-cqrs: the EventStore (saga-starter registration, the    *)
(* commit pipeline: saga-id assignment, save, publish), its one-time       *)
(* emitter subscription, the in-memory snapshot storage and the            *)
(* AggregateCommandHandler.                                                *)
(*                                                                         *)
(* JavaScript values are encoded as integers and strings:                  *)
(*   Undefined (-1) is an absent field; an Identifier is 0 (the falsy      *)
(*   integer id) or a positive number (any truthy id, string or integer);  *)
(*   a version is a number >= 0.                                           *)
(***************************************************************************)
EXTENDS Integers, Sequences, FiniteSets, TLC

\* ------------------------------------------------------------------ bounds

\* events per committed batch
MaxBatch == 2
\* length the _sagaStarters array may grow to
MaxStarters == 2
\* events published on the emitter of a one-time subscription
MaxEmit == 3
\* events an aggregate emits while it handles one command
MaxChanges == 2
\* saveAggregateSnapshot calls made on a snapshot storage
MaxSaves == 3

\* ------------------------------------------------------------------ values

Undefined == -1

\* JavaScript truthiness of an Identifier or number field
Truthy(v) == v # Undefined /\ v # 0

SNAPSHOT_EVENT_TYPE == "snapshot"

Ev(type, aggregateId, sagaId, sagaVersion) ==
  [type |-> type, aggregateId |-> aggregateId, aggregateVersion |-> Undefined,
   sagaId |-> sagaId, sagaVersion |-> sagaVersion]

NoEvent == Ev("undefined", Undefined, Undefined, Undefined)

\* The events a caller may put in a batch (IMessage).
EventPool ==
  { Ev("plain", 1, Undefined, Undefined),
    Ev("started", 1, Undefined, Undefined),
    Ev("started", Undefined, Undefined, Undefined),
    Ev("started", 1, Undefined, 3),
    Ev("started", 1, 7, 1),
    Ev("started", 1, 0, Undefined),
    Ev("", 1, Undefined, Undefined),
    Ev(SNAPSHOT_EVENT_TYPE, 1, Undefined, Undefined),
    Ev(SNAPSHOT_EVENT_TYPE, Undefined, Undefined, Undefined) }

\* A batch numbers its events: aggregateVersion counts the events of the
\* batch up to the event, and a snapshot has the version of the events before it.
Numbered(s) ==
  [i \in 1..Len(s) |->
     [s[i] EXCEPT !.aggregateVersion =
        Cardinality({ j \in 1..i : s[j].type # SNAPSHOT_EVENT_TYPE })]]

\* The events of the batches that are committed while another commit is in
\* flight.
ConcurrentPool ==
  { Ev("plain", 1, Undefined, Undefined),
    Ev("started", 1, Undefined, Undefined),
    Ev(SNAPSHOT_EVENT_TYPE, 1, Undefined, Undefined),
    Ev(SNAPSHOT_EVENT_TYPE, Undefined, Undefined, Undefined) }

\* The snapshot events saved in a snapshot storage: aggregateVersion tells the
\* snapshots of one aggregate apart.
SnapshotPool ==
  { [Ev(SNAPSHOT_EVENT_TYPE, a, Undefined, Undefined) EXCEPT !.aggregateVersion = v] :
      a \in {Undefined, 0, 1, 2}, v \in {1, 2} }

Batches(pool) ==
  { Numbered(s) : s \in UNION { [1..n -> pool] : n \in 1..MaxBatch } }

\* the commit() calls
Commits == {1, 2}

\* the argument lists registerSagaStarters is called with
StarterTypes == {"started", "other"}

StarterArgs == UNION { [1..n -> StarterTypes] : n \in 0..MaxStarters }

\* options.eventStoreConfig of the constructor: absent, or { publishAsync }
EventStoreConfigs == {"undefined", "publishAsync: true", "publishAsync: false"}

\* ------------------------------------------------------------------ state

VARIABLES
  workload,      \* what the callers do: who commits, and over which events
  config,        \* the options given, EventStore._config, snapshotsSupported and
                 \* whether _publishTo is set
  sagaStarters,  \* EventStore._sagaStarters (an array)
  nextId,        \* number of storage.getNewId calls made so far
  commits,       \* the commit() calls: position and locals of each
  storage,       \* event storage: the batches commitEvents has written, in order
  snapshots,     \* InMemorySnapshotStorage.#snapshots
  saveCalls,     \* the saveAggregateSnapshot calls made on the storage itself, in order
  reads,         \* the getAggregateEvents() calls: position and locals of each
  published,     \* the calls of _publishTo.publish, in order
  immediates     \* the setImmediate queue: commits whose publishEvents is scheduled

storeVars ==
  <<workload, config, sagaStarters, nextId, commits, storage, snapshots, saveCalls, reads,
    published, immediates>>

VARIABLES
  listeners,     \* the emitter's handler table: message type -> subscriptions listening
  deliveries,    \* calls of a listener the emitter has still to make
  emitted,       \* number of events published on the emitter
  subs           \* the once() calls: arguments, closure (handled) and promise of each

onceVars == <<listeners, deliveries, emitted, subs>>

VARIABLES
  handler,       \* AggregateCommandHandler: whether #snapshotStorage is set
  execs,         \* the execute() calls: position, aggregate and calls made of each
  streams,       \* the handler's event store: committed events per aggregate
  snapshotStore, \* the handler's snapshot storage: saved snapshot per aggregate
  newIds         \* number of eventStore.getNewId calls of the handler

execVars == <<handler, execs, streams, snapshotStore, newIds>>

\* ------------------------------------------------------------------ helpers

Includes(seq, x) == \E i \in 1..Len(seq) : seq[i] = x

\* the identifier the n-th getNewId call returns: fresh, and no id of EventPool
NewId(n) == 10 + n

\* the keys #snapshots is read with
SnapshotKeys == { e.aggregateId : e \in EventPool \cup SnapshotPool } \ {Undefined}

IdleCommit ==
  [pc |-> "idle", events |-> <<>>, starters |-> <<>>, i |-> 0, r |-> <<>>, newId |-> Undefined,
   ids |-> <<>>, augmentedEvents |-> <<>>, eventStream |-> <<>>,
   snapshot |-> NoEvent, commitEvents |-> "none", saveAggregateSnapshot |-> "none",
   publish |-> "none", error |-> "none", result |-> <<>>, behind |-> {}]

\* the getAggregateEvents() calls
Reads == {1}

\* the aggregateId argument of getAggregateEvents
ReadIds == {0, 1, 2}

IdleRead ==
  [pc |-> "idle", aggregateId |-> Undefined, snapshot |-> NoEvent, asked |-> NoEvent,
   returned |-> <<>>, error |-> "none", result |-> <<>>]

\* ------------------------------------------------------------------ EventStore

\* _defaults, lines 40-42
Defaults == [publishAsync |-> TRUE]

\* constructor, line 220: Object.assign({}, EventStore.defaults, options.eventStoreConfig)
ConfigOf(eventStoreConfig) ==
  [publishAsync |-> IF eventStoreConfig = "undefined" THEN Defaults.publishAsync
                    ELSE eventStoreConfig = "publishAsync: true"]

\* the stores the constructor builds from its options
EventStores(snapshotStorages, publishTargets) ==
  { [eventStoreConfig |-> o, publishAsync |-> ConfigOf(o).publishAsync,
     snapshotsSupported |-> s, publishTo |-> p,
     snapshotStorage |-> IF s THEN "InMemorySnapshotStorage" ELSE "undefined"] :
      o \in EventStoreConfigs, s \in snapshotStorages, p \in publishTargets }

\* validateEvent: TRUE when it does not throw. Every modelled event is an object.
validateEvent(event) ==
  /\ event.type # ""
  /\ (Truthy(event.aggregateId) \/ Truthy(event.sagaId))
  /\ (Truthy(event.sagaId) => event.sagaVersion # Undefined)

\* registerSagaStarters: the array after the call
registerSagaStarters(starters, eventTypes) ==
  LET uniqueEventTypes == SelectSeq(eventTypes, LAMBDA e : ~Includes(starters, e))
  IN  starters \o uniqueEventTypes

\* commit, line 348
containsSagaStarters(starters, events) ==
  Len(starters) # 0 /\ \E k \in 1..Len(events) : Includes(starters, events[k].type)

\* an assignment that builds the event anew from its type and ids
AttachSagaIdFromScratch(id, event) == Ev(event.type, event.aggregateId, id, 0)

\* Object.assign({ sagaId: id, sagaVersion: 0 }, event): the fields the event
\* has overwrite the assigned ones.
AttachSagaId(id, event) ==
  [event EXCEPT
     !.sagaId = IF event.sagaId # Undefined THEN event.sagaId ELSE id,
     !.sagaVersion = IF event.sagaVersion # Undefined THEN event.sagaVersion ELSE 0]

\* _attachSagaIdToSagaStarterEvents: the loop from event i up to its next
\* suspension (await getNewId), throw or return.
RECURSIVE AttachScan(_, _, _, _)
AttachScan(starters, events, i, r) ==
  IF i > Len(events) THEN [kind |-> "return", i |-> i, r |-> r]
  ELSE IF Includes(starters, events[i].type)
       THEN IF Truthy(events[i].sagaId)
            THEN [kind |-> "throw", i |-> i, r |-> r]
            ELSE [kind |-> "await", i |-> i, r |-> r]
       ELSE AttachScan(starters, events, i + 1, Append(r, events[i]))

\* save, lines 399-406: the snapshot events of the stream
SnapshotEvents(events) == SelectSeq(events, LAMBDA e : e.type = SNAPSHOT_EVENT_TYPE)

\* save, line 405: snapshotEvents[0], or undefined
SnapshotOf(events) ==
  IF Len(SnapshotEvents(events)) = 0 THEN NoEvent ELSE SnapshotEvents(events)[1]

\* InMemorySnapshotStorage.saveAggregateSnapshot: does it throw
SnapshotSaveThrows(snapshotEvent) == ~Truthy(snapshotEvent.aggregateId)

\* a Promise.all that settles with whichever write settles first
PromiseAllFirstSettled(commitEventsState, saveSnapshotState) ==
  IF commitEventsState = "fail" \/ saveSnapshotState = "fail" THEN "rejected"
  ELSE IF commitEventsState = "ok" \/ saveSnapshotState = "ok" THEN "resolved"
  ELSE "pending"

\* InMemorySnapshotStorage.getAggregateSnapshot: Map.get
getAggregateSnapshot(snaps, aggregateId) == snaps[aggregateId]

\* InMemorySnapshotStorage.saveAggregateSnapshot: #snapshots after the call
saveAggregateSnapshot(snaps, snapshotEvent) ==
  IF SnapshotSaveThrows(snapshotEvent) THEN snaps
  ELSE [snaps EXCEPT ![snapshotEvent.aggregateId] = snapshotEvent]

\* a save that takes no snapshot out of the stream
WithSnapshot(events) == events

\* save, line 406: the events that are not the snapshot
WithoutSnapshot(events) == SelectSeq(events, LAMBDA e : e # SnapshotOf(events))

\* a save without the two snapshot checks
SaveErrorValidationOnly(events, snapshotsSupported) ==
  IF \E k \in 1..Len(WithoutSnapshot(events)) : ~validateEvent(WithoutSnapshot(events)[k])
  THEN "InvalidEvent"
  ELSE "none"

\* save, lines 399-409: the error thrown before anything is written, or "none"
SaveError(events, snapshotsSupported) ==
  IF Len(SnapshotEvents(events)) > 1 THEN "MultipleSnapshots"
  ELSE IF Len(SnapshotEvents(events)) # 0 /\ ~snapshotsSupported THEN "SnapshotsUnsupported"
  ELSE IF \E k \in 1..Len(WithoutSnapshot(events)) : ~validateEvent(WithoutSnapshot(events)[k])
       THEN "InvalidEvent"
  ELSE "none"

\* a save that does not wait for the snapshot write
PromiseAllEventsOnly(commitEventsState, saveSnapshotState) ==
  IF commitEventsState = "fail" THEN "rejected"
  ELSE IF commitEventsState = "ok" THEN "resolved"
  ELSE "pending"

\* save, lines 412-417: Promise.all over the two writes
PromiseAll(commitEventsState, saveSnapshotState) ==
  IF commitEventsState = "fail" \/ saveSnapshotState = "fail" THEN "rejected"
  ELSE IF commitEventsState = "ok" /\ saveSnapshotState \in {"ok", "none"} THEN "resolved"
  ELSE "pending"

\* a publish that walks the stream from its end
PublishOrderReversed(eventStream) ==
  [k \in 1..Len(eventStream) |-> eventStream[Len(eventStream) + 1 - k]]

\* publish, line 428: the order in which publish is called for the events
PublishOrder(eventStream) == eventStream

\* save, lines 396-417, up to the await: the checks, then both writes are
\* started; InMemorySnapshotStorage.saveAggregateSnapshot runs to its end in
\* the call (it awaits nothing), commitEvents settles later.
SaveCall(rec, events, snapshotsSupported) ==
  IF SaveError(events, snapshotsSupported) # "none"
  THEN [rec EXCEPT !.pc = "failed", !.augmentedEvents = events,
                   !.error = SaveError(events, snapshotsSupported)]
  ELSE [rec EXCEPT !.pc = "save", !.augmentedEvents = events,
                   !.eventStream = WithoutSnapshot(events),
                   !.snapshot = SnapshotOf(events),
                   !.commitEvents = "pending",
                   !.saveAggregateSnapshot =
                      IF SnapshotOf(events) = NoEvent THEN "none"
                      ELSE IF config.snapshotStorage # "InMemorySnapshotStorage"
                      THEN "pending"
                      ELSE IF SnapshotSaveThrows(SnapshotOf(events)) THEN "fail"
                      ELSE "ok"]

\* InMemorySnapshotStorage.#snapshots after the call of save above
SnapshotsAfterSave(snaps, events, snapshotsSupported) ==
  IF /\ SaveError(events, snapshotsSupported) = "none"
     /\ SnapshotOf(events) # NoEvent
     /\ config.snapshotStorage = "InMemorySnapshotStorage"
     /\ ~SnapshotSaveThrows(SnapshotOf(events))
  THEN [snaps EXCEPT ![SnapshotOf(events).aggregateId] = SnapshotOf(events)]
  ELSE snaps

\* save's Promise.all has settled and commit has not resumed yet (line 353)
Settled(rec) ==
  /\ rec.pc = "save"
  /\ PromiseAll(rec.commitEvents, rec.saveAggregateSnapshot) # "pending"

\* Continuations run in the order in which their promises settled: a commit
\* whose save settles goes behind the commits whose save settled before it.
Queued(c, rec) ==
  IF Settled(rec) /\ ~Settled(commits[c])
  THEN [rec EXCEPT !.behind = { d \in Commits \ {c} : Settled(commits[d]) }]
  ELSE rec

\* _attachSagaIdToSagaStarterEvents from event i on, then (when the loop
\* returns) commit's call of save: the commit record, the id counter and the
\* snapshot storage at the next suspension.
AttachFrom(c, rec, i, r) ==
  LET s == AttachScan(sagaStarters, rec.events, i, r) IN
  CASE s.kind = "throw" ->
         /\ commits' = [commits EXCEPT ![c] =
               [rec EXCEPT !.pc = "failed", !.i = s.i, !.r = s.r,
                           !.error = "SagaAlreadyStarted"]]
         /\ UNCHANGED <<nextId, snapshots>>
    [] s.kind = "await" ->
         /\ commits' = [commits EXCEPT ![c] =
               [rec EXCEPT !.pc = "attach", !.i = s.i, !.r = s.r,
                           !.newId = NewId(nextId + 1),
                           !.ids = Append(rec.ids, NewId(nextId + 1))]]
         /\ nextId' = nextId + 1
         /\ UNCHANGED snapshots
    [] s.kind = "return" ->
         /\ commits' = [commits EXCEPT ![c] =
               Queued(c, SaveCall([rec EXCEPT !.i = s.i, !.r = s.r], s.r,
                                  config.snapshotsSupported))]
         /\ snapshots' = SnapshotsAfterSave(snapshots, s.r, config.snapshotsSupported)
         /\ UNCHANGED nextId

\* registerSagaStarters(eventTypes)
RegisterSagaStarters(eventTypes) ==
  /\ Len(registerSagaStarters(sagaStarters, eventTypes)) <= MaxStarters
  /\ sagaStarters' = registerSagaStarters(sagaStarters, eventTypes)
  /\ UNCHANGED <<reads, saveCalls, workload, config, nextId, commits, storage, snapshots, published, immediates>>
  /\ UNCHANGED <<onceVars, execVars>>

\* commit(events), lines 345-353, up to its first suspension
CommitBegin(c, events) ==
  /\ c \in workload.commits
  /\ commits[c].pc = "idle"
  /\ \A d \in Commits : d < c => commits[d].pc # "idle"
  /\ IF containsSagaStarters(sagaStarters, events)
     THEN AttachFrom(c, [commits[c] EXCEPT !.events = events,
                                            !.starters = sagaStarters], 1, <<>>)
     ELSE /\ commits' = [commits EXCEPT ![c] =
                Queued(c, SaveCall([commits[c] EXCEPT !.events = events,
                                                      !.starters = sagaStarters], events,
                                   config.snapshotsSupported))]
          /\ snapshots' = SnapshotsAfterSave(snapshots, events, config.snapshotsSupported)
          /\ UNCHANGED nextId
  /\ UNCHANGED <<reads, saveCalls, workload, config, sagaStarters, storage, published, immediates>>
  /\ UNCHANGED <<onceVars, execVars>>

\* _attachSagaIdToSagaStarterEvents resumes with the id getNewId returned
AttachResume(c) ==
  /\ commits[c].pc = "attach"
  /\ AttachFrom(c, commits[c], commits[c].i + 1,
                Append(commits[c].r,
                       AttachSagaId(commits[c].newId, commits[c].events[commits[c].i])))
  /\ UNCHANGED <<reads, saveCalls, workload, config, sagaStarters, storage, published, immediates>>
  /\ UNCHANGED <<onceVars, execVars>>

\* storage.commitEvents settles: the batch is written as a whole, or not at all
CommitEventsSettle(c, ok) ==
  /\ commits[c].commitEvents = "pending"
  /\ commits' = [commits EXCEPT ![c] =
        Queued(c, [commits[c] EXCEPT !.commitEvents = IF ok THEN "ok" ELSE "fail"])]
  /\ storage' = IF ok THEN Append(storage, [c |-> c, events |-> commits[c].eventStream])
                ELSE storage
  /\ UNCHANGED <<reads, saveCalls, workload, config, sagaStarters, nextId, snapshots, published, immediates>>
  /\ UNCHANGED <<onceVars, execVars>>

\* a publishEvents that stops after the first event
PublishCallsFirstOnly(c, eventStream) ==
  [k \in 1..(IF Len(eventStream) = 0 THEN 0 ELSE 1) |->
     [c |-> c, event |-> PublishOrder(eventStream)[k]]]

\* the calls publishEvents makes, lines 427-428
PublishCalls(c, eventStream) ==
  [k \in 1..Len(eventStream) |-> [c |-> c, event |-> PublishOrder(eventStream)[k]]]

\* a publish that never awaits publishEvents
AwaitsPublishNever(publishAsync) == FALSE

\* a publish that always awaits publishEvents
AwaitsPublishAlways(publishAsync) == TRUE

\* publish, lines 436-443: is publishEvents awaited, or left to setImmediate
AwaitsPublish(publishAsync) == ~publishAsync

\* save returns or throws (lines 412-419), and commit goes on to publish
\* (lines 353-360, 426-444)
SaveResume(c) ==
  /\ Settled(commits[c])
  /\ \A d \in commits[c].behind : ~Settled(commits[d])
  /\ IF PromiseAll(commits[c].commitEvents, commits[c].saveAggregateSnapshot) = "rejected"
     THEN /\ commits' = [commits EXCEPT ![c].pc = "failed", ![c].behind = {},
                ![c].error = IF commits[c].saveAggregateSnapshot = "fail"
                             THEN "SnapshotFailure" ELSE "StorageFailure"]
          /\ UNCHANGED <<published, immediates>>
     ELSE IF ~config.publishTo
     THEN /\ commits' = [commits EXCEPT ![c].pc = "done", ![c].behind = {},
                                        ![c].result = commits[c].eventStream]
          /\ UNCHANGED <<published, immediates>>
     ELSE IF ~AwaitsPublish(config.publishAsync)
     THEN /\ immediates' = Append(immediates, c)
          /\ commits' = [commits EXCEPT ![c].pc = "done", ![c].behind = {},
                                        ![c].result = commits[c].eventStream]
          /\ UNCHANGED published
     ELSE /\ published' = published \o PublishCalls(c, commits[c].eventStream)
          /\ commits' = [commits EXCEPT ![c].pc = "publishing", ![c].behind = {}, ![c].publish = "pending"]
          /\ UNCHANGED immediates
  /\ UNCHANGED <<reads, saveCalls, workload, config, sagaStarters, nextId, storage, snapshots>>
  /\ UNCHANGED <<onceVars, execVars>>

\* saveAggregateSnapshot of a snapshot storage that writes after the call
\* settles: the snapshot is stored, or the write fails
SnapshotSaveSettle(c, ok) ==
  /\ commits[c].saveAggregateSnapshot = "pending"
  /\ commits' = [commits EXCEPT ![c] =
        Queued(c, [commits[c] EXCEPT !.saveAggregateSnapshot = IF ok THEN "ok" ELSE "fail"])]
  /\ snapshots' = IF ok /\ Truthy(commits[c].snapshot.aggregateId)
                  THEN [snapshots EXCEPT ![commits[c].snapshot.aggregateId] = commits[c].snapshot]
                  ELSE snapshots
  /\ UNCHANGED <<reads, saveCalls, workload, config, sagaStarters, nextId, storage, published, immediates>>
  /\ UNCHANGED <<onceVars, execVars>>

\* the setImmediate callback publishEvents runs (publishAsync)
PublishEvents ==
  /\ immediates # <<>>
  /\ published' = published \o PublishCalls(Head(immediates), commits[Head(immediates)].eventStream)
  /\ commits' = [commits EXCEPT ![Head(immediates)].publish = "pending"]
  /\ immediates' = Tail(immediates)
  /\ UNCHANGED <<reads, saveCalls, workload, config, sagaStarters, nextId, storage, snapshots>>
  /\ UNCHANGED <<onceVars, execVars>>

\* Promise.all over the publish calls settles (lines 428-434, 442); with no
\* event to publish it can only resolve
PublishSettle(c, ok) ==
  /\ commits[c].publish = "pending"
  /\ ok \/ Len(commits[c].eventStream) > 0
  /\ commits' = [commits EXCEPT
        ![c].publish = IF ok THEN "ok" ELSE "fail",
        ![c].pc = IF commits[c].pc # "publishing" THEN commits[c].pc
                  ELSE IF ok THEN "done" ELSE "failed",
        ![c].error = IF commits[c].pc = "publishing" /\ ~ok
                     THEN "PublishFailure" ELSE commits[c].error,
        ![c].result = IF commits[c].pc = "publishing" /\ ok
                      THEN commits[c].eventStream ELSE commits[c].result]
  /\ UNCHANGED <<reads, saveCalls, workload, config, sagaStarters, nextId, storage, snapshots, published, immediates>>
  /\ UNCHANGED <<onceVars, execVars>>

\* saveAggregateSnapshot(snapshotEvent), called on the storage
SaveAggregateSnapshot(snapshotEvent) ==
  /\ Len(saveCalls) < MaxSaves
  /\ saveCalls' = Append(saveCalls, [snapshotEvent |-> snapshotEvent,
                                     threw |-> SnapshotSaveThrows(snapshotEvent)])
  /\ snapshots' = saveAggregateSnapshot(snapshots, snapshotEvent)
  /\ UNCHANGED <<reads, workload, config, sagaStarters, nextId, commits, storage, published,
                 immediates>>
  /\ UNCHANGED <<onceVars, execVars>>

\* the events and the starter lists of the workload
WorkloadPool == IF workload.concurrent THEN ConcurrentPool ELSE EventPool

WorkloadStarterArgs == IF workload.concurrent THEN {<<"started">>} ELSE StarterArgs

\* new EventStore(options)
InitStore ==
  /\ sagaStarters = <<>>
  /\ nextId = 0
  /\ commits = [c \in Commits |-> IdleCommit]
  /\ storage = <<>>
  /\ snapshots = [a \in SnapshotKeys |-> NoEvent]
  /\ saveCalls = <<>>
  /\ reads = [r \in Reads |-> IdleRead]
  /\ published = <<>>
  /\ immediates = <<>>

NextStore ==
  \/ \E eventTypes \in WorkloadStarterArgs : RegisterSagaStarters(eventTypes)
  \/ \E c \in Commits, events \in Batches(WorkloadPool) : CommitBegin(c, events)
  \/ \E c \in Commits : AttachResume(c)
  \/ \E c \in Commits, ok \in BOOLEAN : CommitEventsSettle(c, ok)
  \/ \E c \in Commits : SaveResume(c)
  \/ PublishEvents
  \/ \E c \in Commits, ok \in BOOLEAN : PublishSettle(c, ok)

\* storage.getAggregateEvents(aggregateId, { snapshot }): the events written
\* for the aggregate, those after the snapshot's version when there is one
StoredAggregateEvents(batches, aggregateId, snapshot) ==
  LET RECURSIVE Flat(_)
      Flat(b) == IF b = <<>> THEN <<>> ELSE Head(b).events \o Flat(Tail(b))
  IN  SelectSeq(Flat(batches),
                LAMBDA e : /\ e.aggregateId = aggregateId
                           /\ snapshot # NoEvent =>
                                e.aggregateVersion > snapshot.aggregateVersion)

\* getAggregateEvents, lines 286-294: the stream built from the snapshot and
\* the events the storage returned
EventStreamOf(snapshot, events) ==
  IF snapshot # NoEvent THEN <<snapshot>> \o events ELSE events

\* getAggregateEvents(aggregateId), lines 277-284, up to its first await
GetAggregateEvents(r, aggregateId) ==
  /\ reads[r].pc = "idle"
  /\ reads' = [reads EXCEPT ![r] =
        IF ~Truthy(aggregateId)
        THEN [reads[r] EXCEPT !.pc = "failed", !.aggregateId = aggregateId,
                              !.error = "TypeError"]
        ELSE IF config.snapshotsSupported
        THEN [reads[r] EXCEPT !.pc = "getAggregateSnapshot", !.aggregateId = aggregateId,
                !.snapshot = getAggregateSnapshot(snapshots, aggregateId)]
        ELSE [reads[r] EXCEPT !.pc = "getAggregateEvents", !.aggregateId = aggregateId,
                              !.asked = NoEvent]]
  /\ UNCHANGED <<workload, config, sagaStarters, nextId, commits, storage, snapshots, saveCalls,
                 published, immediates>>
  /\ UNCHANGED <<onceVars, execVars>>

\* getAggregateEvents, lines 282-290: the snapshot is there, the storage is asked
GetAggregateSnapshotReturn(r) ==
  /\ reads[r].pc = "getAggregateSnapshot"
  /\ reads' = [reads EXCEPT ![r].pc = "getAggregateEvents", ![r].asked = reads[r].snapshot]
  /\ UNCHANGED <<workload, config, sagaStarters, nextId, commits, storage, snapshots, saveCalls,
                 published, immediates>>
  /\ UNCHANGED <<onceVars, execVars>>

\* getAggregateEvents, lines 290-297: the storage's events are read, the
\* stream is returned
GetAggregateEventsReturn(r) ==
  /\ reads[r].pc = "getAggregateEvents"
  /\ LET events == StoredAggregateEvents(storage, reads[r].aggregateId, reads[r].asked)
     IN  reads' = [reads EXCEPT ![r].pc = "done", ![r].returned = events,
                                ![r].result = EventStreamOf(reads[r].snapshot, events)]
  /\ UNCHANGED <<workload, config, sagaStarters, nextId, commits, storage, snapshots, saveCalls,
                 published, immediates>>
  /\ UNCHANGED <<onceVars, execVars>>

\* the commits of a store and the reads of its aggregates' events
NextRead ==
  \/ NextStore
  \/ \E r \in Reads, aggregateId \in ReadIds : GetAggregateEvents(r, aggregateId)
  \/ \E r \in Reads : GetAggregateSnapshotReturn(r)
  \/ \E r \in Reads : GetAggregateEventsReturn(r)

\* the calls made on an InMemorySnapshotStorage
NextSnapshotStorage ==
  \E snapshotEvent \in SnapshotPool : SaveAggregateSnapshot(snapshotEvent)

\* ------------------------------------------------------------------ once

Subs == {1}

\* message types on the emitter; "z" is never subscribed to
MessageTypes == {"x", "y", "z"}

Messages == [type : MessageTypes, payload : {3, 7}]

NoMessage == [type |-> "undefined", payload |-> Undefined]

\* the messageTypes argument of once: a string or an array of strings
OnceTypeArgs ==
  { [isArray |-> FALSE, type |-> t, types |-> <<>>] : t \in {"x", "y"} }
    \cup { [isArray |-> TRUE, type |-> "", types |-> q] :
             q \in UNION { [1..n -> {"x", "y"}] : n \in 0..2 } }

\* once, line 481
SubscribeTo(messageTypes) ==
  IF messageTypes.isArray THEN messageTypes.types ELSE <<messageTypes.type>>

\* the filter a caller passes: e => e.payload == 7
Filter(event) == event.payload = 7

IdleSub ==
  [pc |-> "none", messageTypes |-> <<>>, hasFilter |-> FALSE, hasHandler |-> FALSE,
   handled |-> FALSE, received |-> <<>>, handlerCalls |-> <<>>,
   resolved |-> NoMessage, awaited |-> NoMessage]

\* emitter.on(messageType, filteredHandler) for every message type, lines 151-152
OnAll(table, messageTypes, s) ==
  [t \in MessageTypes |-> IF Includes(messageTypes, t) THEN table[t] \cup {s} ELSE table[t]]

\* emitter.off(messageType, filteredHandler) for every message type, lines 139-140
OffAll(table, messageTypes, s) ==
  [t \in MessageTypes |-> IF Includes(messageTypes, t) THEN table[t] \ {s} ELSE table[t]]

\* a filter that lets every event through
PassesFilterAlways(sub, event) == TRUE

\* filteredHandler, line 135: does the event go past the filter
PassesFilter(sub, event) == ~sub.hasFilter \/ Filter(event)

\* a handler guard that forgets the handled flag
GoesOnIgnoringHandled(sub, event) == PassesFilter(sub, event)

\* filteredHandler, lines 135-136: does the call go on to handle the event
GoesOn(sub, event) == PassesFilter(sub, event) /\ ~sub.handled

\* filteredHandler, lines 134-149: the subscription after the call
FilteredHandler(sub, event) ==
  IF ~GoesOn(sub, event)
  THEN [sub EXCEPT !.received = Append(sub.received, event)]
  ELSE [sub EXCEPT !.received = Append(sub.received, event),
                   !.handled = TRUE,
                   !.handlerCalls = IF sub.hasHandler THEN Append(sub.handlerCalls, event)
                                    ELSE sub.handlerCalls,
                   !.resolved = IF sub.resolved = NoMessage THEN event ELSE sub.resolved,
                   !.pc = "resolved"]

\* once(messageTypes, handler, filter), lines 480-484 and 117-156
Once(s, messageTypes, hasHandler, hasFilter) ==
  /\ subs[s].pc = "none"
  /\ subs' = [subs EXCEPT ![s] =
        [IdleSub EXCEPT !.pc = "pending", !.messageTypes = SubscribeTo(messageTypes),
                        !.hasFilter = hasFilter, !.hasHandler = hasHandler]]
  /\ listeners' = OnAll(listeners, SubscribeTo(messageTypes), s)
  /\ UNCHANGED <<deliveries, emitted>>
  /\ UNCHANGED <<storeVars, execVars>>

\* the emitter publishes an event: every listener of its type is to be called
Emit(event) ==
  /\ emitted < MaxEmit
  /\ emitted' = emitted + 1
  /\ deliveries' = deliveries \cup
        { [n |-> emitted + 1, s |-> s, event |-> event] : s \in listeners[event.type] }
  /\ UNCHANGED <<listeners, subs>>
  /\ UNCHANGED <<storeVars, execVars>>

\* the emitter calls filteredHandler(event)
Deliver(d) ==
  /\ d \in deliveries
  /\ deliveries' = deliveries \ {d}
  /\ subs' = [subs EXCEPT ![d.s] = FilteredHandler(subs[d.s], d.event)]
  /\ listeners' = IF GoesOn(subs[d.s], d.event)
                  THEN OffAll(listeners, subs[d.s].messageTypes, d.s)
                  ELSE listeners
  /\ UNCHANGED emitted
  /\ UNCHANGED <<storeVars, execVars>>

\* the caller awaiting the promise of once goes on with the event
Awaited(s) ==
  /\ subs[s].resolved # NoMessage
  /\ subs[s].awaited = NoMessage
  /\ subs' = [subs EXCEPT ![s].awaited = subs[s].resolved]
  /\ UNCHANGED <<listeners, deliveries, emitted>>
  /\ UNCHANGED <<storeVars, execVars>>

InitOnce ==
  /\ listeners = [t \in MessageTypes |-> {}]
  /\ deliveries = {}
  /\ emitted = 0
  /\ subs = [s \in Subs |-> IdleSub]

NextOnce ==
  \/ \E s \in Subs, messageTypes \in OnceTypeArgs, hasHandler \in BOOLEAN,
        hasFilter \in BOOLEAN : Once(s, messageTypes, hasHandler, hasFilter)
  \/ \E event \in Messages : Emit(event)
  \/ \E d \in deliveries : Deliver(d)
  \/ \E s \in Subs : Awaited(s)

\* ------------------------------------------------------------------ AggregateCommandHandler

Execs == {1, 2}

\* the commands sent to the handler (ICommand)
Commands == [type : {"doSomething", ""}, aggregateId : {Undefined, 0, 1, 2}]

\* the aggregates: those the commands name, and one new id per execute call
AggregateIds == {1, 2} \cup { 2 + x : x \in Execs }

\* the identifier the n-th getNewId call of the handler returns
NewAggregateId(n) == 2 + n

NoSnapshot == [aggregateId |-> Undefined, aggregateVersion |-> Undefined]

NoAggregate ==
  [id |-> Undefined, version |-> 0, changes |-> <<>>,
   shouldTakeSnapshot |-> FALSE, hasMakeSnapshot |-> FALSE]

\* an argument of a call: an Identifier or an array of events
IdArg(id) == [isArray |-> FALSE, id |-> id, events |-> <<>>]

ArrayArg(events) == [isArray |-> TRUE, id |-> Undefined, events |-> events]

IdleExec ==
  [pc |-> "idle", cmd |-> [type |-> "", aggregateId |-> Undefined],
   newId |-> Undefined, snapshot |-> NoSnapshot, aggregate |-> NoAggregate, calls |-> <<>>,
   commitArgs |-> <<>>, committed |-> <<>>, error |-> "none", result |-> <<>>]

\* the events of a stream after the snapshot's last event (getStream's filter)
RECURSIVE EventsAfter(_, _)
EventsAfter(stream, snapshot) ==
  IF stream = <<>> THEN <<>>
  ELSE IF snapshot # NoSnapshot /\ Head(stream).aggregateVersion <= snapshot.aggregateVersion
       THEN EventsAfter(Tail(stream), snapshot)
       ELSE stream

\* a factory that hands out the aggregate it built for another call
RestoredAggregateShared(id, snapshot, events) ==
  IF \E y \in Execs : execs[y].aggregate # NoAggregate
  THEN (CHOOSE a \in { execs[y].aggregate : y \in Execs } : a # NoAggregate)
  ELSE [NoAggregate EXCEPT !.id = id]

\* the aggregate the factory builds from { id, snapshot, events }
RestoredAggregate(id, snapshot, events) ==
  [NoAggregate EXCEPT
     !.id = id,
     !.version = IF events # <<>> THEN events[Len(events)].aggregateVersion
                 ELSE IF snapshot # NoSnapshot THEN snapshot.aggregateVersion
                 ELSE 0]

\* aggregate.emit called n times: the changes and the version after them
Emitted(aggregate, n) ==
  [aggregate EXCEPT
     !.changes = [k \in 1..n |-> [type |-> "somethingDone", aggregateId |-> aggregate.id,
                                  aggregateVersion |-> aggregate.version + k]],
     !.version = aggregate.version + n]

\* aggregate.makeSnapshot()
MakeSnapshot(aggregate) ==
  [aggregateId |-> aggregate.id, aggregateVersion |-> aggregate.version]

\* execute, line 140: the arguments eventStore.commit is called with
CommitArguments(aggregate) == <<IdArg(aggregate.id), ArrayArg(aggregate.changes)>>

\* an execute that commits whatever the aggregate produced
NothingProducedNever(events) == FALSE

\* execute, line 137: !events.length
NothingProduced(events) == Len(events) = 0

\* execute(cmd), lines 123-129, up to the first await
ExecuteBegin(x, cmd) ==
  /\ execs[x].pc = "idle"
  /\ \A y \in Execs : y < x => execs[y].pc # "idle"
  /\ execs' = [execs EXCEPT ![x] =
        IF cmd.type = ""
        THEN [execs[x] EXCEPT !.pc = "failed", !.cmd = cmd, !.error = "TypeError"]
        ELSE IF ~Truthy(cmd.aggregateId)
        THEN [execs[x] EXCEPT !.pc = "getNewId", !.cmd = cmd,
                              !.newId = NewAggregateId(newIds + 1),
                              !.calls = <<"getNewId">>]
        ELSE IF handler.snapshotStorage
        THEN [execs[x] EXCEPT !.pc = "getSnapshot", !.cmd = cmd,
                              !.calls = <<"getSnapshot">>]
        ELSE [execs[x] EXCEPT !.pc = "getStream", !.cmd = cmd,
                              !.calls = <<"getStream">>]]
  /\ newIds' = IF cmd.type # "" /\ ~Truthy(cmd.aggregateId) THEN newIds + 1 ELSE newIds
  /\ UNCHANGED <<handler, streams, snapshotStore>>
  /\ UNCHANGED <<storeVars, onceVars>>

\* _restoreAggregate, lines 98-100: getSnapshot returns, getStream is called
GetSnapshotReturn(x) ==
  /\ execs[x].pc = "getSnapshot"
  /\ execs' = [execs EXCEPT ![x].pc = "getStream",
                            ![x].snapshot = snapshotStore[execs[x].cmd.aggregateId],
                            ![x].calls = Append(execs[x].calls, "getStream")]
  /\ UNCHANGED <<handler, streams, snapshotStore, newIds>>
  /\ UNCHANGED <<storeVars, onceVars>>

\* _restoreAggregate, lines 100-106: the events are read, the aggregate built
GetStreamReturn(x) ==
  /\ execs[x].pc = "getStream"
  /\ execs' = [execs EXCEPT ![x].pc = "handle",
        ![x].aggregate =
           RestoredAggregate(execs[x].cmd.aggregateId, execs[x].snapshot,
                             EventsAfter(streams[execs[x].cmd.aggregateId],
                                         execs[x].snapshot))]
  /\ UNCHANGED <<handler, streams, snapshotStore, newIds>>
  /\ UNCHANGED <<storeVars, onceVars>>

\* _createAggregate, lines 113-117: getNewId returns, the aggregate is built
GetNewIdReturn(x) ==
  /\ execs[x].pc = "getNewId"
  /\ execs' = [execs EXCEPT ![x].pc = "handle",
        ![x].aggregate = RestoredAggregate(execs[x].newId, NoSnapshot, <<>>)]
  /\ UNCHANGED <<handler, streams, snapshotStore, newIds>>
  /\ UNCHANGED <<storeVars, onceVars>>

\* execute, lines 131-140: the aggregate handles the command and emits n
\* events; with no events execute returns, else commit is called
Handle(x, n, shouldTakeSnapshot, hasMakeSnapshot) ==
  /\ execs[x].pc = "handle"
  /\ LET aggregate == [Emitted(execs[x].aggregate, n) EXCEPT
                         !.shouldTakeSnapshot = shouldTakeSnapshot,
                         !.hasMakeSnapshot = hasMakeSnapshot]
     IN execs' = [execs EXCEPT ![x] =
          IF NothingProduced(aggregate.changes)
          THEN [execs[x] EXCEPT !.pc = "returned", !.aggregate = aggregate,
                                !.calls = Append(execs[x].calls, "handle"),
                                !.result = aggregate.changes]
          ELSE [execs[x] EXCEPT !.pc = "commit", !.aggregate = aggregate,
                                !.calls = execs[x].calls \o <<"handle", "commit">>,
                                !.commitArgs = CommitArguments(aggregate)]]
  /\ UNCHANGED <<handler, streams, snapshotStore, newIds>>
  /\ UNCHANGED <<storeVars, onceVars>>

\* execute, lines 140-151: commit settles (the event store resolves to the
\* events it was given); on success the snapshot is made and saved
\* (saveSnapshot is not awaited) and the events are returned
CommitReturn(x, ok) ==
  /\ execs[x].pc = "commit"
  /\ LET aggregate == execs[x].aggregate
         takes == handler.snapshotStorage /\ aggregate.shouldTakeSnapshot
         rec == IF ok THEN [execs[x] EXCEPT !.committed = aggregate.changes] ELSE execs[x]
     IN
     /\ streams' = IF ok THEN [streams EXCEPT ![aggregate.id] = @ \o aggregate.changes]
                   ELSE streams
     /\ snapshotStore' =
          IF ok /\ takes /\ aggregate.hasMakeSnapshot
          THEN [snapshotStore EXCEPT ![aggregate.id] = MakeSnapshot(aggregate)]
          ELSE snapshotStore
     /\ execs' = [execs EXCEPT ![x] =
          IF ~ok THEN [rec EXCEPT !.pc = "failed", !.error = "CommitFailure"]
          ELSE IF takes /\ ~aggregate.hasMakeSnapshot
          THEN [rec EXCEPT !.pc = "failed", !.error = "TypeError"]
          ELSE IF takes
          THEN [rec EXCEPT !.pc = "returned", !.result = aggregate.changes,
                  !.calls = execs[x].calls \o <<"makeSnapshot", "saveSnapshot">>]
          ELSE [rec EXCEPT !.pc = "returned", !.result = aggregate.changes]]
  /\ UNCHANGED <<handler, newIds>>
  /\ UNCHANGED <<storeVars, onceVars>>

\* new AggregateCommandHandler(options)
InitExec ==
  /\ execs = [x \in Execs |-> IdleExec]
  /\ streams = [a \in AggregateIds |-> <<>>]
  /\ snapshotStore = [a \in AggregateIds |-> NoSnapshot]
  /\ newIds = 0

NextExec ==
  \/ \E x \in Execs, cmd \in Commands : ExecuteBegin(x, cmd)
  \/ \E x \in Execs : GetSnapshotReturn(x)
  \/ \E x \in Execs : GetStreamReturn(x)
  \/ \E x \in Execs : GetNewIdReturn(x)
  \/ \E x \in Execs, n \in 0..MaxChanges, shouldTakeSnapshot \in BOOLEAN,
        hasMakeSnapshot \in BOOLEAN : Handle(x, n, shouldTakeSnapshot, hasMakeSnapshot)
  \/ \E x \in Execs, ok \in BOOLEAN : CommitReturn(x, ok)

\* ------------------------------------------------------------------ specifications

vars == <<storeVars, onceVars, execVars>>

\* Two commits in flight together, over a message bus and a snapshot storage.
Init ==
  /\ workload = [commits |-> Commits, concurrent |-> TRUE]
  /\ config \in EventStores({TRUE}, {TRUE})
  /\ InitStore
  /\ InitOnce
  /\ handler = [snapshotStorage |-> FALSE]
  /\ InitExec

Next == NextStore

Spec == Init /\ [][Next]_vars

\* One commit of any batch over EventPool, under every configuration.
InputInit ==
  /\ workload = [commits |-> {1}, concurrent |-> FALSE]
  /\ config \in EventStores(BOOLEAN, BOOLEAN)
  /\ InitStore
  /\ InitOnce
  /\ handler = [snapshotStorage |-> FALSE]
  /\ InitExec

InputSpec == InputInit /\ [][Next]_vars

\* Two commits in flight together over a snapshot storage that writes after
\* the call, as IAggregateSnapshotStorage allows; no saga starter is registered.
OrderInit ==
  /\ workload = [commits |-> Commits, concurrent |-> TRUE]
  /\ config \in { [s EXCEPT !.snapshotStorage = "IAggregateSnapshotStorage"] :
                    s \in EventStores({TRUE}, {TRUE}) }
  /\ InitStore
  /\ InitOnce
  /\ handler = [snapshotStorage |-> FALSE]
  /\ InitExec

NextOrder ==
  \/ \E c \in Commits, events \in Batches(WorkloadPool) : CommitBegin(c, events)
  \/ \E c \in Commits, ok \in BOOLEAN : CommitEventsSettle(c, ok)
  \/ \E c \in Commits, ok \in BOOLEAN : SnapshotSaveSettle(c, ok)
  \/ \E c \in Commits : SaveResume(c)
  \/ PublishEvents
  \/ \E c \in Commits, ok \in BOOLEAN : PublishSettle(c, ok)

OrderSpec == OrderInit /\ [][NextOrder]_vars

\* One-time subscriptions on an emitter; a resolved promise's continuation runs.
OnceInit ==
  /\ workload = [commits |-> {}, concurrent |-> FALSE]
  /\ config \in EventStores({FALSE}, {TRUE})
  /\ config.eventStoreConfig = "undefined"
  /\ InitStore
  /\ InitOnce
  /\ handler = [snapshotStorage |-> FALSE]
  /\ InitExec

\* Two execute calls in flight together, with and without a snapshot storage.
ExecInit ==
  /\ workload = [commits |-> {}, concurrent |-> FALSE]
  /\ config \in EventStores({FALSE}, {TRUE})
  /\ config.eventStoreConfig = "undefined"
  /\ InitStore
  /\ InitOnce
  /\ handler \in [snapshotStorage : BOOLEAN]
  /\ InitExec

ExecSpec == ExecInit /\ [][NextExec]_vars

\* One commit, and a read of an aggregate's events at any time around it.
ReadInit ==
  /\ workload = [commits |-> {1}, concurrent |-> TRUE]
  /\ config \in EventStores(BOOLEAN, {TRUE})
  /\ InitStore
  /\ InitOnce
  /\ handler = [snapshotStorage |-> FALSE]
  /\ InitExec

ReadSpec == ReadInit /\ [][NextRead]_vars

\* The commits of Spec, where an awaiting commit goes on once its promise is
\* settled and the event loop runs the setImmediate callbacks.
FairSpec ==
  /\ Spec
  /\ WF_vars(PublishEvents)
  /\ \A c \in Commits : WF_vars(SaveResume(c))

\* An InMemorySnapshotStorage on its own, saved to and read by its user.
SnapshotStorageInit ==
  /\ workload = [commits |-> {}, concurrent |-> FALSE]
  /\ config \in EventStores({TRUE}, {TRUE})
  /\ config.eventStoreConfig = "undefined"
  /\ InitStore
  /\ InitOnce
  /\ handler = [snapshotStorage |-> FALSE]
  /\ InitExec

SnapshotStorageSpec == SnapshotStorageInit /\ [][NextSnapshotStorage]_vars

OnceSpec == OnceInit /\ [][NextOnce]_vars /\ \A s \in Subs : WF_vars(Awaited(s))

\* ------------------------------------------------------------------ claims

PublishedOf(c) == SelectSeq(published, LAMBDA p : p.c = c)

StoredOf(c) == SelectSeq(storage, LAMBDA b : b.c = c)

\* C1: an event is handed to publish only after the storage writes of its own
\* batch (commitEvents, and saveAggregateSnapshot when the batch holds a
\* snapshot) have completed successfully, whatever other commits are doing.
C1_CommitPrecedesPublish ==
  \A k \in 1..Len(published) :
    LET rec == commits[published[k].c] IN
    /\ rec.commitEvents = "ok"
    /\ rec.snapshot # NoEvent => rec.saveAggregateSnapshot = "ok"
    /\ \E j \in 1..Len(storage) :
         /\ storage[j].c = published[k].c
         /\ \E n \in 1..Len(storage[j].events) : storage[j].events[n] = published[k].event

\* C1 witness: an event of a batch with a snapshot is published while the
\* other commit is still saving.
C1_Witness ==
  \E k \in 1..Len(published) : \E d \in Commits :
    /\ commits[published[k].c].snapshot # NoEvent
    /\ d # published[k].c
    /\ commits[d].pc = "save"

\* C2: the non-snapshot events of one commit are published in the order they
\* have in the committed batch (aggregateVersion is the position in the batch).
C2_PublishInInputOrder ==
  \A j, k \in 1..Len(published) :
    (j < k /\ published[j].c = published[k].c)
      => published[j].event.aggregateVersion < published[k].event.aggregateVersion

\* C2 witness: both commits have published two events each.
C2_Witness ==
  \A c \in Commits : Len(PublishedOf(c)) = 2

\* C3: when commitEvents or saveAggregateSnapshot fails, one of them possibly
\* having succeeded, the commit does not succeed, it fails with the storage's
\* error, and no event of the batch is published or scheduled for publication.
C3_FailedSaveNeverPublishes ==
  \A c \in Commits :
    (commits[c].commitEvents = "fail" \/ commits[c].saveAggregateSnapshot = "fail")
      => /\ Len(PublishedOf(c)) = 0
         /\ ~Includes(immediates, c)
         /\ commits[c].publish = "none"
         /\ commits[c].pc \in {"save", "failed"}
         /\ commits[c].pc = "failed" =>
              \/ commits[c].error = "StorageFailure" /\ commits[c].commitEvents = "fail"
              \/ commits[c].error = "SnapshotFailure"
                   /\ commits[c].saveAggregateSnapshot = "fail"

\* C3 witness: the events were written, the snapshot write failed, and the
\* commit has failed.
C3_Witness ==
  \E c \in Commits :
    /\ commits[c].commitEvents = "ok"
    /\ commits[c].saveAggregateSnapshot = "fail"
    /\ commits[c].pc = "failed"
    /\ Len(commits[c].eventStream) > 0

\* the events of a batch that are not of the snapshot type
NonSnapshot(events) == SelectSeq(events, LAMBDA e : e.type # SNAPSHOT_EVENT_TYPE)

\* C4: when a non-snapshot event of the committed batch fails structural
\* validation, the commit does not succeed, neither commitEvents nor
\* saveAggregateSnapshot is called, and no event of the batch is published.
C4_InvalidEventFailsCommit ==
  \A c \in Commits :
    (/\ commits[c].pc # "idle"
     /\ \E k \in 1..Len(NonSnapshot(commits[c].events)) :
          ~validateEvent(NonSnapshot(commits[c].events)[k]))
      => /\ commits[c].commitEvents = "none"
         /\ commits[c].saveAggregateSnapshot = "none"
         /\ Len(PublishedOf(c)) = 0
         /\ commits[c].pc \notin {"done", "publishing"}

\* every event of the batch is of a type registered when commit was called,
\* and none carries a sagaId
AllFreshStarters(rec) ==
  /\ Len(rec.events) > 0
  /\ \A k \in 1..Len(rec.events) :
       /\ Includes(rec.starters, rec.events[k].type)
       /\ rec.events[k].sagaId = Undefined

\* C5: committed starter events (none carrying a sagaId) get pairwise
\* distinct sagaIds, one getNewId call each, and sagaVersion 0; the persisted
\* and the published copies are the same events.
C5_StartersGetFreshSagaIds ==
  \A c \in Commits :
    (AllFreshStarters(commits[c]) /\ commits[c].commitEvents = "ok")
      => /\ Len(commits[c].eventStream) = Len(commits[c].events)
         /\ Len(commits[c].ids) = Len(commits[c].events)
         /\ \A k \in 1..Len(commits[c].eventStream) :
              /\ commits[c].eventStream[k].sagaId = commits[c].ids[k]
              /\ commits[c].eventStream[k].sagaVersion = 0
         /\ \A j, k \in 1..Len(commits[c].ids) :
              j # k => commits[c].ids[j] # commits[c].ids[k]
         /\ \A d \in Commits : \A j \in 1..Len(commits[d].ids) :
              \A k \in 1..Len(commits[c].ids) :
                d # c => commits[d].ids[j] # commits[c].ids[k]
         /\ \A j \in 1..Len(StoredOf(c)) : StoredOf(c)[j].events = commits[c].eventStream
         /\ \A j \in 1..Len(PublishedOf(c)) :
              PublishedOf(c)[j].event = commits[c].eventStream[j]

\* C6: a commit whose batch holds an event of a registered saga-starter type
\* that already has a sagaId does not succeed, and nothing of the batch is
\* persisted or published.
C6_StartedSagaRejected ==
  \A c \in Commits :
    (/\ commits[c].pc # "idle"
     /\ \E k \in 1..Len(commits[c].events) :
          /\ Includes(commits[c].starters, commits[c].events[k].type)
          /\ commits[c].events[k].sagaId # Undefined)
      => /\ commits[c].commitEvents = "none"
         /\ commits[c].saveAggregateSnapshot = "none"
         /\ Len(PublishedOf(c)) = 0
         /\ commits[c].pc \in {"attach", "failed"}

\* C9: registering types that are all registered already leaves the array
\* unchanged, and no type is in the array more than once.
C9_RegisterIdempotentNoDuplicates ==
  /\ \A eventTypes \in StarterArgs :
       (\A k \in 1..Len(eventTypes) : Includes(sagaStarters, eventTypes[k]))
         => registerSagaStarters(sagaStarters, eventTypes) = sagaStarters
  /\ \A j, k \in 1..Len(sagaStarters) : j # k => sagaStarters[j] # sagaStarters[k]

\* the events a subscription has received that pass its filter
Passing(sub) == SelectSeq(sub.received, LAMBDA e : sub.hasFilter => Filter(e))

\* C7: the handler of a once subscription is invoked at most once, and once
\* the promise is resolved the emitter holds no listener of the subscription.
C7_OnceHandlesAtMostOnce ==
  \A s \in Subs :
    /\ Len(subs[s].handlerCalls) <= 1
    /\ subs[s].resolved # NoMessage => \A t \in MessageTypes : s \notin listeners[t]

\* C7 witness: two events that pass the filter were delivered, the handler
\* ran once.
C7_Witness ==
  \E s \in Subs :
    /\ Len(Passing(subs[s])) >= 2
    /\ Len(subs[s].handlerCalls) = 1
    /\ subs[s].resolved # NoMessage

\* what C8 says of one subscription in one state
C8_Safety(s) ==
  LET sub == subs[s]
      p == Passing(sub)
  IN  IF Len(p) = 0
      THEN /\ sub.resolved = NoMessage
           /\ sub.awaited = NoMessage
           /\ sub.handlerCalls = <<>>
           /\ sub.pc = "pending" =>
                \A k \in 1..Len(sub.messageTypes) : s \in listeners[sub.messageTypes[k]]
      ELSE /\ sub.resolved = p[1]
           /\ sub.hasHandler => sub.handlerCalls = <<p[1]>>
           /\ sub.awaited \in {NoMessage, p[1]}

\* C8: a once subscription resolves with the first delivered event that
\* passes the filter and the handler receives that event; deliveries that fail
\* the filter neither invoke the handler nor remove the subscription; once a
\* passing event is delivered the awaiting caller eventually gets it.
C8_OnceResolvesWithFirstPassing ==
  /\ [](\A s \in Subs : C8_Safety(s))
  /\ \A s \in Subs :
       (Len(Passing(subs[s])) > 0) ~>
         (Len(Passing(subs[s])) > 0 /\ subs[s].awaited = Passing(subs[s])[1])

\* C8 witness: an event that fails the filter was delivered first, a passing
\* one later, and the caller has got the passing one.
C8_Witness ==
  \E s \in Subs :
    /\ Len(subs[s].received) >= 2
    /\ subs[s].hasFilter /\ ~Filter(subs[s].received[1])
    /\ subs[s].hasHandler
    /\ Len(Passing(subs[s])) > 0
    /\ subs[s].awaited = Passing(subs[s])[1]

\* C10: when aggregate.handle produces no events, execute returns the empty
\* stream, eventStore.commit is not called, and no snapshot is made or saved,
\* also when shouldTakeSnapshot is true.
C10_NoChangesNoCommit ==
  \A x \in Execs :
    (Includes(execs[x].calls, "handle") /\ execs[x].aggregate.changes = <<>>)
      => /\ execs[x].pc = "returned"
         /\ execs[x].result = <<>>
         /\ ~Includes(execs[x].calls, "commit")
         /\ ~Includes(execs[x].calls, "makeSnapshot")
         /\ ~Includes(execs[x].calls, "saveSnapshot")

\* C10 witness: with a snapshot storage, an aggregate that signals
\* shouldTakeSnapshot has handled a command without producing events.
C10_Witness ==
  \E x \in Execs :
    /\ handler.snapshotStorage
    /\ Includes(execs[x].calls, "handle")
    /\ execs[x].aggregate.changes = <<>>
    /\ execs[x].aggregate.shouldTakeSnapshot
    /\ execs[x].aggregate.hasMakeSnapshot
    /\ execs[x].pc = "returned"

\* how many times a call was made
Count(calls, name) == Len(SelectSeq(calls, LAMBDA n : n = name))

\* the aggregate of an execute call has been constructed
Constructed(rec) == rec.aggregate # NoAggregate

\* C11: for a command whose aggregateId is set, whatever Id it is, execute
\* reads the aggregate's event stream once, never calls getNewId and builds
\* the aggregate with that id; for a command without aggregateId it calls
\* getNewId once, reads no stream and builds the aggregate with the new id.
C11_AggregateIdDecidesRestore ==
  \A x \in Execs :
    execs[x].pc \notin {"idle"} /\ execs[x].cmd.type # "" =>
      IF execs[x].cmd.aggregateId # Undefined
      THEN /\ Count(execs[x].calls, "getNewId") = 0
           /\ Count(execs[x].calls, "getStream") <= 1
           /\ Constructed(execs[x]) =>
                /\ Count(execs[x].calls, "getStream") = 1
                /\ execs[x].aggregate.id = execs[x].cmd.aggregateId
      ELSE /\ Count(execs[x].calls, "getStream") = 0
           /\ Count(execs[x].calls, "getNewId") = 1
           /\ Constructed(execs[x]) => execs[x].aggregate.id = execs[x].newId

\* the position of the first call of that name, 0 when it was not made
RECURSIVE IndexOf(_, _, _)
IndexOf(calls, name, k) ==
  IF k > Len(calls) THEN 0
  ELSE IF calls[k] = name THEN k
  ELSE IndexOf(calls, name, k + 1)

\* C12: with a snapshot storage, when the aggregate signals shouldTakeSnapshot
\* after producing events, the snapshot is made before commit is called and
\* commit gets a stream ending with the snapshot event, whose aggregateVersion
\* is the aggregate's version; without the signal no snapshot is made.
C12_SnapshotBeforeCommit ==
  \A x \in Execs :
    Includes(execs[x].calls, "commit") =>
      IF handler.snapshotStorage /\ execs[x].aggregate.shouldTakeSnapshot
            /\ execs[x].aggregate.hasMakeSnapshot
      THEN /\ IndexOf(execs[x].calls, "makeSnapshot", 1) # 0
           /\ IndexOf(execs[x].calls, "makeSnapshot", 1)
                < IndexOf(execs[x].calls, "commit", 1)
           /\ \E k \in 1..Len(execs[x].commitArgs) :
                /\ execs[x].commitArgs[k].isArray
                /\ execs[x].commitArgs[k].events =
                     Append(execs[x].aggregate.changes,
                            [type |-> SNAPSHOT_EVENT_TYPE,
                             aggregateId |-> execs[x].aggregate.id,
                             aggregateVersion |-> execs[x].aggregate.version])
      ELSE ~execs[x].aggregate.shouldTakeSnapshot =>
             Count(execs[x].calls, "makeSnapshot") = 0

\* C17: when the aggregate produced events, execute calls eventStore.commit
\* once, with those events as the argument, and resolves to the stream that
\* commit resolved to.
C17_ExecuteCommitsOnce ==
  \A x \in Execs :
    (Includes(execs[x].calls, "handle") /\ execs[x].aggregate.changes # <<>>) =>
      /\ Count(execs[x].calls, "commit") = 1
      /\ execs[x].commitArgs = <<ArrayArg(execs[x].aggregate.changes)>>
      /\ execs[x].pc = "returned" => execs[x].result = execs[x].committed


\* the events handed to publish for a commit, in the order of the calls
PublishedEvents(c) == [k \in 1..Len(PublishedOf(c)) |-> PublishedOf(c)[k].event]

\* b is a, but for the saga fields
SameButSagaFields(a, b) ==
  [a EXCEPT !.sagaId = b.sagaId, !.sagaVersion = b.sagaVersion] = b

\* the stream is the input without its snapshot events, in input order, the
\* events of a saga-starter type carrying the saga fields commit gave them
InputMinusSnapshot(rec) ==
  LET input == NonSnapshot(rec.events) IN
  /\ Len(rec.eventStream) = Len(input)
  /\ \A k \in 1..Len(input) :
       IF Includes(rec.starters, input[k].type)
       THEN SameButSagaFields(input[k], rec.eventStream[k])
       ELSE rec.eventStream[k] = input[k]

\* C13: for a successful commit, what commitEvents got, what was published and
\* what commit returned are one sequence, the input events minus the snapshot
\* event in input order; the snapshot event is never published nor written to
\* the event storage, it goes to saveAggregateSnapshot only.
C13_OneCommittedStream ==
  /\ \A c \in Commits :
       LET rec == commits[c] IN
       /\ rec.commitEvents # "none" => InputMinusSnapshot(rec)
       /\ rec.commitEvents = "ok" => StoredOf(c) = <<[c |-> c, events |-> rec.eventStream]>>
       /\ rec.commitEvents # "ok" => StoredOf(c) = <<>>
       /\ PublishedOf(c) # <<>> => PublishedEvents(c) = rec.eventStream
       /\ rec.pc = "done" =>
            /\ rec.result = rec.eventStream
            /\ rec.commitEvents = "ok"
            /\ (config.publishTo /\ ~Includes(immediates, c)) =>
                 PublishedEvents(c) = rec.eventStream
       /\ rec.snapshot # NoEvent =>
            /\ rec.snapshot.type = SNAPSHOT_EVENT_TYPE
            /\ Includes(rec.events, rec.snapshot)
            /\ ~Includes(rec.eventStream, rec.snapshot)
  /\ \A k \in 1..Len(published) : published[k].event.type # SNAPSHOT_EVENT_TYPE
  /\ \A j \in 1..Len(storage) : \A k \in 1..Len(storage[j].events) :
       storage[j].events[k].type # SNAPSHOT_EVENT_TYPE
  /\ \A a \in SnapshotKeys :
       snapshots[a] # NoEvent =>
         /\ snapshots[a].type = SNAPSHOT_EVENT_TYPE
         /\ \E c \in Commits : commits[c].snapshot = snapshots[a]

\* C13 witness: a commit of an event and a snapshot has returned; the event was
\* stored and published, the snapshot is in the snapshot storage.
C13_Witness ==
  \E c \in Commits :
    /\ commits[c].pc = "done"
    /\ Len(commits[c].events) = 2
    /\ commits[c].snapshot # NoEvent
    /\ Len(commits[c].result) = 1
    /\ PublishedEvents(c) = commits[c].result
    /\ snapshots[commits[c].snapshot.aggregateId] = commits[c].snapshot

\* C14: with publishAsync = false, commit returns only when publish has
\* completed for every non-snapshot event of the batch; when a publish fails
\* the commit fails with that error and the events stay persisted.
C14_SyncPublishAwaited ==
  (config.publishTo /\ ~config.publishAsync) =>
    /\ immediates = <<>>
    /\ \A c \in Commits :
         /\ commits[c].pc = "done" =>
              /\ commits[c].publish = "ok"
              /\ PublishedEvents(c) = commits[c].eventStream
         /\ commits[c].publish = "pending" => commits[c].pc = "publishing"
         /\ commits[c].publish = "fail" =>
              /\ commits[c].pc = "failed"
              /\ commits[c].error = "PublishFailure"
              /\ StoredOf(c) = <<[c |-> c, events |-> commits[c].eventStream]>>

\* C14 witness: one commit has failed on a publish, its events persisted, and
\* the other has returned after its two events were published.
C14_Witness ==
  /\ ~config.publishAsync
  /\ \E c, d \in Commits :
       /\ commits[c].error = "PublishFailure"
       /\ Len(StoredOf(c)) = 1
       /\ commits[d].pc = "done"
       /\ Len(PublishedOf(d)) = 2

\* what C15 says of one state
C15_Safety ==
  /\ config.eventStoreConfig = "undefined" => config.publishAsync
  /\ (config.publishTo /\ config.publishAsync) =>
       \A c \in Commits :
         /\ commits[c].pc # "publishing"
         /\ (Includes(immediates, c) \/ commits[c].publish # "none") =>
              /\ commits[c].pc = "done"
              /\ commits[c].error = "none"
              /\ commits[c].result = commits[c].eventStream
         /\ PublishedOf(c) # <<>> => commits[c].publish # "none"

\* what C15 says of one step: the step in which save returns is the step in
\* which commit returns, with nothing of the batch published yet, and a commit
\* that has returned stays returned
C15_Step ==
  (config.publishTo /\ config.publishAsync) =>
    \A c \in Commits :
      /\ (commits[c].pc = "save" /\ commits'[c].pc # "save") =>
           \/ commits'[c].pc = "failed" /\ commits'[c].error # "PublishFailure"
           \/ /\ commits'[c].pc = "done"
              /\ SelectSeq(published', LAMBDA q : q.c = c) = <<>>
              /\ commits'[c].publish = "none"
      /\ commits[c].pc = "done" =>
           /\ commits'[c].pc = "done"
           /\ commits'[c].error = "none"
           /\ commits'[c].result = commits[c].result

\* C15: with publishAsync = true, which is the default, commit returns success
\* as soon as the save has succeeded and before any event of the batch is
\* published, and a failing publish never fails that commit.
C15_AsyncPublishDetached ==
  []C15_Safety /\ [][C15_Step]_vars

\* C15 witness: a store built without eventStoreConfig; a commit has returned
\* its events, and their publication failed afterwards.
C15_Witness ==
  /\ config.eventStoreConfig = "undefined"
  /\ \E c \in Commits :
       /\ commits[c].pc = "done"
       /\ commits[c].publish = "fail"
       /\ Len(commits[c].result) = 2

\* the save of a commit has succeeded
Persisted(c) ==
  /\ commits[c].pc \in {"save", "publishing", "done", "failed"}
  /\ commits[c].commitEvents = "ok"
  /\ PromiseAll(commits[c].commitEvents, commits[c].saveAggregateSnapshot) = "resolved"

\* C16: with a publish target, every non-snapshot event of a batch that was
\* persisted is eventually handed to publish, in both publish modes, also when
\* the publish of another event of the batch fails.
C16_PersistedEventuallyPublished ==
  \A c \in Commits :
    (config.publishTo /\ Persisted(c)) ~> (PublishedEvents(c) = commits[c].eventStream)

\* C16 witness: two events were persisted and handed to publish, and the
\* publication failed.
C16_Witness ==
  \E c \in Commits :
    /\ Persisted(c)
    /\ Len(commits[c].eventStream) = 2
    /\ PublishedEvents(c) = commits[c].eventStream
    /\ commits[c].publish = "fail"

ValidEvent(event) ==
  /\ event.type # ""
  /\ (event.aggregateId # Undefined \/ event.sagaId # Undefined)
  /\ (event.sagaId # Undefined => event.sagaVersion # Undefined)

\* C19: with the default validator, commit accepts a batch exactly when each
\* of its non-snapshot events has a non-empty type, an aggregateId or a sagaId,
\* and a sagaVersion when it has a sagaId, whatever Id these hold; the snapshot
\* event is not validated.
C19_ValidatorAcceptsIff ==
  \A c \in Commits :
    LET rec == commits[c]
        checked == WithoutSnapshot(rec.augmentedEvents)
    IN  (/\ rec.pc \notin {"idle", "attach"}
         /\ rec.error \notin {"SagaAlreadyStarted", "MultipleSnapshots", "SnapshotsUnsupported"})
          => (rec.error # "InvalidEvent" <=>
                \A k \in 1..Len(checked) : ValidEvent(checked[k]))


\* the snapshot of the last save call made for that aggregate
RECURSIVE LastSaved(_, _)
LastSaved(calls, aggregateId) ==
  IF calls = <<>> THEN NoEvent
  ELSE IF calls[Len(calls)].snapshotEvent.aggregateId = aggregateId
       THEN calls[Len(calls)].snapshotEvent
       ELSE LastSaved(SubSeq(calls, 1, Len(calls) - 1), aggregateId)

\* C20: after any sequence of saveAggregateSnapshot calls,
\* getAggregateSnapshot(id) returns the snapshot of the last save made for the
\* aggregate id, undefined when there was none, so a save changes the
\* snapshot of its own aggregate only; a save fails exactly when the event has
\* no aggregateId, and then changes nothing.
C20_SnapshotStorageKeepsLatest ==
  /\ \A aggregateId \in SnapshotKeys :
       getAggregateSnapshot(snapshots, aggregateId) = LastSaved(saveCalls, aggregateId)
  /\ \A k \in 1..Len(saveCalls) :
       saveCalls[k].threw <=> saveCalls[k].snapshotEvent.aggregateId = Undefined


\* C21: with a snapshot storage, when the aggregate signals shouldTakeSnapshot
\* and has no makeSnapshot, execute fails before eventStore.commit is called:
\* none of the aggregate's events is committed.
C21_ContractViolationBeforeCommit ==
  \A x \in Execs :
    (/\ handler.snapshotStorage
     /\ Includes(execs[x].calls, "handle")
     /\ execs[x].aggregate.changes # <<>>
     /\ execs[x].aggregate.shouldTakeSnapshot
     /\ ~execs[x].aggregate.hasMakeSnapshot)
      => /\ ~Includes(execs[x].calls, "commit")
         /\ execs[x].commitArgs = <<>>
         /\ execs[x].committed = <<>>
         /\ execs[x].pc = "failed"

\* the id of the aggregate an execute call is for
OwnId(rec) == IF Truthy(rec.cmd.aggregateId) THEN rec.cmd.aggregateId ELSE rec.newId

\* the events an aggregate produces when its command is run on its own
AloneChanges(rec) ==
  [k \in 1..Len(rec.aggregate.changes) |->
     [type |-> "somethingDone", aggregateId |-> OwnId(rec), aggregateVersion |-> k]]

\* the execute calls are for different aggregates
DistinctAggregates ==
  \A x, y \in Execs :
    (x # y /\ execs[x].pc # "idle" /\ execs[y].pc # "idle"
       /\ execs[x].cmd.type # "" /\ execs[y].cmd.type # "")
      => OwnId(execs[x]) # OwnId(execs[y])

\* C23: however execute calls on distinct aggregates interleave, each call
\* hands commit the events of its own aggregate and nothing else, the events
\* it produces when run alone, and the committed batches are those of the
\* commands run one after another.
C23_ReentrantAcrossAggregates ==
  DistinctAggregates =>
    /\ \A x \in Execs :
         Constructed(execs[x]) =>
           /\ execs[x].aggregate.id = OwnId(execs[x])
           /\ execs[x].aggregate.changes = AloneChanges(execs[x])
           /\ Includes(execs[x].calls, "commit") =>
                /\ Count(execs[x].calls, "commit") = 1
                /\ \E k \in 1..Len(execs[x].commitArgs) :
                     execs[x].commitArgs[k] = ArrayArg(AloneChanges(execs[x]))
           /\ execs[x].committed \in {<<>>, AloneChanges(execs[x])}
    /\ \A a \in AggregateIds :
         \/ streams[a] = <<>> /\ \A x \in Execs :
                                   OwnId(execs[x]) = a => execs[x].committed = <<>>
         \/ \E x \in Execs :
              /\ OwnId(execs[x]) = a
              /\ execs[x].committed # <<>>
              /\ streams[a] = execs[x].committed

\* C23 witness: two calls, one for an existing and one for a new aggregate,
\* are waiting for their commits at the same time.
C23_Witness ==
  /\ DistinctAggregates
  /\ \A x \in Execs :
       /\ execs[x].pc = "commit"
       /\ Len(execs[x].aggregate.changes) = 2
  /\ \E x, y \in Execs : Truthy(execs[x].cmd.aggregateId) /\ ~Truthy(execs[y].cmd.aggregateId)

\* an event after the saga-id assignment is the input event, but for the saga
\* fields when it is of a saga-starter type
Framed(starters, event, augmented) ==
  IF Includes(starters, event.type)
  THEN SameButSagaFields(event, augmented)
  ELSE augmented = event

\* what C24 says of one state
C24_Frame ==
  \A c \in Commits :
    LET rec == commits[c] IN
    /\ Len(rec.r) <= Len(rec.events)
    /\ \A k \in 1..Len(rec.r) : Framed(rec.starters, rec.events[k], rec.r[k])
    /\ (rec.pc \notin {"idle", "attach"} /\ rec.error # "SagaAlreadyStarted") =>
         /\ Len(rec.augmentedEvents) = Len(rec.events)
         /\ \A k \in 1..Len(rec.events) :
              Framed(rec.starters, rec.events[k], rec.augmentedEvents[k])

\* what C24 says of one step: the events the caller passed stay as they were
C24_InputKept ==
  \A c \in Commits : commits[c].pc # "idle" => commits'[c].events = commits[c].events

\* C24: saga-starter assignment changes nothing but sagaId and sagaVersion:
\* the augmented batch has the length and order of the input, an event that is
\* no starter is passed through unchanged, every other field of a starter
\* event keeps its value, and the input events are not changed.
C24_SagaAssignmentFrame ==
  []C24_Frame /\ [][C24_InputKept]_vars

\* C24 witness: a batch of a starter event and another event was augmented,
\* the starter event got its sagaId.
C24_Witness ==
  \E c \in Commits :
    /\ Len(commits[c].augmentedEvents) = 2
    /\ Includes(commits[c].starters, commits[c].events[2].type)
    /\ ~Includes(commits[c].starters, commits[c].events[1].type)
    /\ commits[c].events[2].sagaId = Undefined
    /\ commits[c].augmentedEvents[2].sagaId = NewId(1)
    /\ commits[c].augmentedEvents[1] = commits[c].events[1]

\* C25: the snapshot checks and the validation of the events come before the
\* saga-id assignment: a commit rejected with MultipleSnapshots,
\* SnapshotsUnsupported or InvalidEvent has made no getNewId call.
C25_RejectedCommitTakesNoId ==
  \A c \in Commits :
    commits[c].error \in {"MultipleSnapshots", "SnapshotsUnsupported", "InvalidEvent"}
      => /\ commits[c].ids = <<>>
         /\ nextId = 0


\* C22: getAggregateEvents(aggregateId) returns, when the snapshot storage
\* holds a snapshot of the aggregate, that snapshot followed by the events the
\* storage returns when asked with it, in the storage's order; with no
\* snapshot, or no snapshot storage, it asks the storage with no snapshot and
\* returns the storage's events as they are.
C22_StreamBeginsWithSnapshot ==
  \A r \in Reads :
    reads[r].pc # "idle" =>
      /\ reads[r].pc # "failed"
      /\ reads[r].pc = "done" =>
           /\ reads[r].asked = reads[r].snapshot
           /\ ~config.snapshotsSupported => reads[r].snapshot = NoEvent
           /\ IF reads[r].snapshot # NoEvent
              THEN /\ reads[r].snapshot.aggregateId = reads[r].aggregateId
                   /\ reads[r].result = <<reads[r].snapshot>> \o reads[r].returned
              ELSE reads[r].result = reads[r].returned


\* the highest aggregateVersion among the events written for an aggregate
MaxStoredVersion(aggregateId) ==
  LET written == { v \in 0..MaxBatch :
                     \/ v = 0
                     \/ \E j \in 1..Len(storage) : \E k \in 1..Len(storage[j].events) :
                          /\ storage[j].events[k].aggregateId = aggregateId
                          /\ storage[j].events[k].aggregateVersion = v }
  IN  CHOOSE v \in written : \A w \in written : w <= v

\* C26: in every state, also after a commit that failed in part and while a
\* save is in flight, the snapshot the snapshot storage holds for an aggregate
\* has a version no greater than the highest version among the aggregate's
\* events written to the event storage.
C26_SnapshotNeverAheadOfLog ==
  \A a \in SnapshotKeys :
    snapshots[a] # NoEvent => snapshots[a].aggregateVersion <= MaxStoredVersion(a)


\* the position of commit c's batch among the batches written, 0 when not written
WrittenAt(c) ==
  IF \E j \in 1..Len(storage) : storage[j].c = c
  THEN CHOOSE j \in 1..Len(storage) : storage[j].c = c
  ELSE 0

\* C27: publication across commits follows the order of the writes: when
\* storage.commitEvents succeeded for one batch before it succeeded for
\* another batch of the same aggregate, no event of the later batch is
\* published before an event of the earlier batch, in both publish modes.
C27_PublishFollowsCommitOrder ==
  \A c1, c2 \in Commits :
    (WrittenAt(c1) > 0 /\ WrittenAt(c1) < WrittenAt(c2)) =>
      \A i, j \in 1..Len(published) :
        (published[i].c = c1 /\ published[j].c = c2 /\
         published[i].event.aggregateId = published[j].event.aggregateId) => i < j

====
